---- MODULE Spec2Model ----
(***************************************************************************)
(* Model of danbooru_tag_expander/utils/tag_expander.py: the TagExpander   *)
(* orchestrator (expand_tags, _ensure_all_tags_fetched, _batch_fetch_tags, *)
(* the three _fetch_* lookups, _api_request, _validate_alias_directionality)*)
(* running against a remote tag source and a DanbooruTagGraph.             *)
(*                                                                         *)
(* The DanbooruTagGraph class lives in the danbooru_tag_graph package,     *)
(* which is not part of the sources; its operations are modelled from the  *)
(* written specification (section 4.1).                                    *)
(*                                                                         *)
(* Specifications:                                                         *)
(*   Spec      expand_tags calls on a fresh cache, any remote, failures    *)
(*   SpecVal   the validator on any loaded graph                           *)
(*   SpecFix   the validator on a handed-in graph, twice in a row          *)
(*   SpecRepair the validator statement by statement, with a reader        *)
(*   SpecExp   one expand_tags call on a warm cache, any input list        *)
(*   SpecAcc   the read accessors on a warm cache                          *)
(*   SpecCfg   the constructor's arguments, then expand_tags and accessors *)
(*   SpecRate  the throttle of _api_request, with time                     *)
(*   SpecLive  one expand_tags call under fairness                         *)
(*   SpecOne   one expand_tags call on a fresh cache, any remote, failures *)
(*   SpecRetry a call ended by a rate limit and made again                 *)
(*   SpecPeers two expanders on one graph object                           *)
(*   SpecWrite the same, the graph writes one graph operation at a time    *)
(***************************************************************************)
EXTENDS Integers, Sequences, FiniteSets, TLC

\* ------------------------------------------------------------------ bounds
\* Total number of relationship rows (implications + aliases) the remote holds.
MaxRel == 2
\* Number of tags the remote reports as deprecated.
MaxDeprecated == 1
\* Number of remote calls that may fail (any exception) over a whole behaviour.
MaxFailures == 1
\* Number of expand_tags calls made by the caller.
MaxCalls == 2
\* Length of the input tag list of one expand_tags call.
MaxInputLen == 2
\* Number of implication edges of a graph the validator is started on.
MaxLoadedImpl == 1
\* Number of edges (implications + aliases) of a graph loaded from the cache file.
MaxCachedEdges == 3
\* Length of an input list that may repeat tags.
MaxListLen == 3
\* The largest request_delay, in clock ticks.
MaxDelay == 2
\* The clock value after which no further remote call is started.
MaxClock == 6
\* The longest a sleep oversleeps and the longest pause between two calls, in ticks.
MaxPause == 2
\* Number of remote calls made one after the other when only the throttle is looked at.
MaxRequests == 4

\* ------------------------------------------------------------------- names
\* Tag names are strings; a name is modelled as the sequence of its
\* characters' code points, so that len() and the string order are computed.
tA  == <<1>>
tAB == <<1, 2>>
tB  == <<2>>
Tags == {tA, tAB, tB}

NoTag == <<>>

\* Python's str "<": lexicographic on code points, a proper prefix is smaller.
RECURSIVE LexLess(_, _)
LexLess(s, t) ==
    IF t = <<>> THEN FALSE
    ELSE IF s = <<>> THEN TRUE
    ELSE IF Head(s) < Head(t) THEN TRUE
    ELSE IF Head(s) > Head(t) THEN FALSE
    ELSE LexLess(Tail(s), Tail(t))

\* tuple(sorted([u, v]))
SortedPair(u, v) == IF LexLess(v, u) THEN <<v, u>> ELSE <<u, v>>

\* ------------------------------------------------------------------ remote
\* One row of tag_implications.json / tag_aliases.json.
Rows == {r \in [ante : Tags, cons : Tags, active : BOOLEAN] : r.ante # r.cons}

SmallSets(S, n) == {s \in SUBSET S : Cardinality(s) <= n}

\* The remote sources the model ranges over.
Remotes ==
    {r \in [dep : SmallSets(Tags, MaxDeprecated),
            impl : SmallSets(Rows, MaxRel),
            alias : SmallSets(Rows, MaxRel)] :
        Cardinality(r.impl) + Cardinality(r.alias) <= MaxRel}

\* What the client library does on one request: it returns, or it raises.
\* An exception is a KeyError or another Exception; of its message the code
\* looks at whether it holds "429" and whether it holds one of the phrases
\* 'rate limit', 'too many requests', 'throttled'.
NoExc == [type |-> "none", has429 |-> FALSE, hasPhrase |-> FALSE]
Exceptions == [type : {"KeyError", "Exception"}, has429 : BOOLEAN, hasPhrase : BOOLEAN]

\* _api_request: "ok" (the raw response is returned), "ratelimit"
\* (RateLimitError is raised) or "empty" (the error is logged, [] returned).
ApiOutcome(exc) ==
    IF exc.type = "none" THEN "ok"
    ELSE IF exc.type = "KeyError"
         THEN IF exc.has429 THEN "ratelimit" ELSE "empty"
         ELSE IF exc.hasPhrase \/ exc.has429 THEN "ratelimit" ELSE "empty"

\* ------------------------------------------------------------------- graph
EmptyGraph ==
    [nodes |-> {}, fetched |-> {}, deprecated |-> {}, impl |-> {}, alias |-> {}]

AddTag(g, name, is_deprecated, is_fetched) ==
    [g EXCEPT !.nodes = @ \cup {name},
              !.fetched = IF is_fetched THEN @ \cup {name} ELSE @ \ {name},
              !.deprecated = IF is_deprecated THEN @ \cup {name} ELSE @ \ {name}]

AddImplication(g, a, b) ==
    [g EXCEPT !.nodes = @ \cup {a, b}, !.impl = @ \cup {<<a, b>>}]

AddAlias(g, a, b) ==
    [g EXCEPT !.nodes = @ \cup {a, b}, !.alias = @ \cup {<<a, b>>}]

GetUnfetchedTags(g, candidates) == {t \in candidates : t \notin g.fetched}

IsTagFetched(g, t) == t \in g.fetched

IsCanonical(g, t) == ~ \E e \in g.alias : e[1] = t

HasEdge(g, u, v) == <<u, v>> \in g.impl \cup g.alias

\* networkx remove_edge(u, v): the edge from u to v is removed.
RemoveEdge(g, u, v) ==
    [g EXCEPT !.impl = @ \ {<<u, v>>}, !.alias = @ \ {<<u, v>>}]

\* ------------------------------------------------------------- constructor
\* self.tag_graph is None.
NoGraph == [none |-> TRUE]

\* A directory argument or DANBOORU_CACHE_DIR: None (unset), "" or a path.
NoDir == "<None>"
CacheDirs == {NoDir, "", "cache"}

\* Python's `x or y` on two such values.
Or(x, y) == IF x # NoDir /\ x # "" THEN x ELSE y

\* Lines 68-103: what __init__ leaves in self.tag_graph and self.use_cache.
\* stored is the graph DanbooruTagGraph(cache_file=...) comes up with (the
\* cache file's graph, after the import of a legacy cache if there was one).
\* With the directory "" os.makedirs raises and there is no expander.
ConstructAlwaysCaches(cfg, stored) ==
    IF cfg.tag_graph # NoGraph
    THEN [tag_graph |-> cfg.tag_graph, use_cache |-> TRUE, failed |-> FALSE]
    ELSE [tag_graph |-> stored, use_cache |-> TRUE, failed |-> FALSE]

Construct(cfg, stored) ==
    IF cfg.tag_graph # NoGraph
    THEN [tag_graph |-> cfg.tag_graph, use_cache |-> TRUE, failed |-> FALSE]
    ELSE IF cfg.use_cache
         THEN LET cache_dir == Or(cfg.cache_dir, cfg.env_cache_dir)
              IN IF cache_dir # NoDir
                 THEN IF cache_dir = ""
                      THEN [tag_graph |-> NoGraph, use_cache |-> TRUE, failed |-> TRUE]
                      ELSE [tag_graph |-> stored, use_cache |-> TRUE, failed |-> FALSE]
                 ELSE [tag_graph |-> NoGraph, use_cache |-> FALSE, failed |-> FALSE]
         ELSE [tag_graph |-> NoGraph, use_cache |-> FALSE, failed |-> FALSE]

\* An expander with a cache directory and no graph handed in.
DefaultConfig ==
    [tag_graph |-> NoGraph, use_cache |-> TRUE, cache_dir |-> "cache",
     env_cache_dir |-> NoDir, request_delay |-> 1]

\* ---------------------------------------------------------------- throttle
\* Lines 123-127: how long _api_request sleeps before the call.
SleepTimeElapsed(current_time, last, request_delay) ==
    IF current_time - last < request_delay THEN current_time - last ELSE 0

SleepTime(current_time, last, request_delay) ==
    LET time_since_last == current_time - last
    IN IF time_since_last < request_delay THEN request_delay - time_since_last ELSE 0

\* ----------------------------------------------------------------- lookups
\* _fetch_tag_deprecated_status: raised is the RateLimitError leaving the
\* method; value is the returned bool (response[0]["is_deprecated"], False on
\* an empty response).
FetchTagDeprecatedStatusSwallows(rem, name, exc) ==
    [raised |-> FALSE, value |-> ApiOutcome(exc) = "ok" /\ name \in rem.dep]

FetchTagDeprecatedStatusStrict(rem, name, exc) ==
    [raised |-> ApiOutcome(exc) # "ok",
     value |-> ApiOutcome(exc) = "ok" /\ name \in rem.dep]

FetchTagDeprecatedStatusNever(rem, name, exc) ==
    [raised |-> ApiOutcome(exc) = "ratelimit", value |-> FALSE]

FetchTagDeprecatedStatus(rem, name, exc) ==
    [raised |-> ApiOutcome(exc) = "ratelimit",
     value |-> ApiOutcome(exc) = "ok" /\ name \in rem.dep]

\* The consequents _fetch_tag_implications goes on to check: the rows of the
\* response with a consequent_name and status "active".
ImplicationCandidates(rem, name, exc) ==
    IF ApiOutcome(exc) = "ok"
    THEN {r.cons : r \in {x \in rem.impl : x.ante = name /\ x.active}}
    ELSE {}

\* The same for _fetch_tag_aliases, which also compares antecedent_name.
AliasCandidates(rem, name, exc) ==
    IF ApiOutcome(exc) = "ok"
    THEN {r.cons : r \in {x \in rem.alias : x.ante = name /\ x.active /\ x.ante = name}}
    ELSE {}

\* ------------------------------------------------------- per-tag population
RECURSIVE AddImplications(_, _, _)
AddImplications(g, name, implied) ==
    IF implied = {} THEN g
    ELSE LET c == CHOOSE x \in implied : TRUE
         IN AddImplications(AddImplication(g, name, c), name, implied \ {c})

\* Lines 258-265: the alias edge, then the consequent marked as fetched.
AddAliasAndMark(g, name, c) ==
    LET g1 == AddAlias(g, name, c)
    IN IF ~ IsTagFetched(g1, c) THEN AddTag(g1, c, FALSE, TRUE) ELSE g1

RECURSIVE AddAliases(_, _, _)
AddAliases(g, name, als) ==
    IF als = {} THEN g
    ELSE LET c == CHOOSE x \in als : TRUE
         IN AddAliases(AddAliasAndMark(g, name, c), name, als \ {c})

\* Lines 245-265: the graph writes for a tag that is not deprecated.
PopulateTagUnmarked(g, name, implied, als) ==
    AddAliases(AddImplications(AddTag(g, name, FALSE, FALSE), name, implied), name, als)

PopulateTag(g, name, implied, als) ==
    AddAliases(AddImplications(AddTag(g, name, FALSE, TRUE), name, implied), name, als)

\* Line 268.
PopulateDeprecatedUnfetched(g, name) == AddTag(g, name, TRUE, FALSE)

PopulateDeprecatedAsLive(g, name) == AddTag(g, name, FALSE, TRUE)

PopulateDeprecated(g, name) == AddTag(g, name, TRUE, TRUE)

\* --------------------------------------------------------------- validator
AliasEdges(g) == g.alias

BidirectionalPairsOneWay(g) ==
    {SortedPair(e[1], e[2]) : e \in AliasEdges(g)}

BidirectionalPairs(g) ==
    {SortedPair(e[1], e[2]) : e \in {x \in AliasEdges(g) : <<x[2], x[1]>> \in AliasEdges(g)}}

\* Lines 627-659, for pair = (u, v) as sorted.
CorrectDirectionEarlierFirst(u, v, u_canonical, v_canonical) ==
    IF ~ u_canonical /\ v_canonical THEN <<u, v>>
    ELSE IF u_canonical /\ ~ v_canonical THEN <<v, u>>
    ELSE IF Len(u) < Len(v) THEN <<v, u>>
    ELSE IF Len(v) < Len(u) THEN <<u, v>>
    ELSE IF LexLess(u, v) THEN <<u, v>> ELSE <<v, u>>

CorrectDirection(u, v, u_canonical, v_canonical) ==
    IF ~ u_canonical /\ v_canonical THEN <<u, v>>
    ELSE IF u_canonical /\ ~ v_canonical THEN <<v, u>>
    ELSE IF Len(u) < Len(v) THEN <<v, u>>
    ELSE IF Len(v) < Len(u) THEN <<u, v>>
    ELSE IF LexLess(u, v) THEN <<v, u>> ELSE <<u, v>>

\* Lines 661-674: both edges removed, the resolved one added.
ApplyDirectionKeepsBoth(g, u, v, dir) == AddAlias(g, dir[1], dir[2])

ApplyDirectionResetsTags(g, u, v, dir) ==
    LET g1 == IF HasEdge(g, u, v) THEN RemoveEdge(g, u, v) ELSE g
        g2 == IF HasEdge(g1, v, u) THEN RemoveEdge(g1, v, u) ELSE g1
    IN AddAlias(AddTag(AddTag(g2, u, FALSE, FALSE), v, FALSE, FALSE), dir[1], dir[2])

ApplyDirectionDropsOutgoing(g, u, v, dir) ==
    AddAlias([g EXCEPT !.alias = {e \in @ : e[1] \notin {u, v}}], dir[1], dir[2])

ApplyDirection(g, u, v, dir) ==
    LET g1 == IF HasEdge(g, u, v) THEN RemoveEdge(g, u, v) ELSE g
        g2 == IF HasEdge(g1, v, u) THEN RemoveEdge(g1, v, u) ELSE g1
    IN AddAlias(g2, dir[1], dir[2])

FixPair(g, pair) ==
    ApplyDirection(g, pair[1], pair[2],
        CorrectDirection(pair[1], pair[2], IsCanonical(g, pair[1]), IsCanonical(g, pair[2])))

\* ------------------------------------------------- closure and frequencies
\* DanbooruTagGraph.expand_tags(tags, include_deprecated=False).
Range(seq) == {seq[i] : i \in DOMAIN seq}

Occurrences(seq, t) == Cardinality({i \in DOMAIN seq : seq[i] = t})

RECURSIVE SumOver(_, _)
SumOver(S, f) ==
    IF S = {} THEN 0
    ELSE LET x == CHOOSE y \in S : TRUE IN f[x] + SumOver(S \ {x}, f)

\* Implication edges to consequents that are not deprecated.
LiveImplications(g) == {e \in g.impl : e[2] \notin g.deprecated}

RECURSIVE Reach(_, _)
Reach(S, E) ==
    LET n == S \cup {e[2] : e \in {x \in E : x[1] \in S}}
    IN IF n = S THEN S ELSE Reach(n, E)

GetTransitiveImplications(g, t) == Reach({t}, LiveImplications(g)) \ {t}

GetAliasGroup(g, t) ==
    Reach({t}, g.alias \cup {<<e[2], e[1]>> : e \in g.alias})

\* The number of implication paths from s to t that visit no tag twice.
RECURSIVE Paths(_, _, _, _)
Paths(g, s, t, visited) ==
    IF s = t THEN 1
    ELSE LET next == {e[2] : e \in {x \in LiveImplications(g) : x[1] = s}} \ visited
         IN SumOver(next, [n \in next |-> Paths(g, n, t, visited \cup {n})])

ExpandedSet(g, tags) ==
    LET implied == Range(tags) \cup UNION {GetTransitiveImplications(g, t) : t \in Range(tags)}
    IN UNION {GetAliasGroup(g, t) : t \in implied}

\* Rules (1) and (2): the frequency of each tag of the expanded set before
\* the alias groups share theirs.
PreAliasFrequency(g, tags) ==
    [t \in ExpandedSet(g, tags) |->
        SumOver(Range(tags),
            [s \in Range(tags) |-> Occurrences(tags, s) * Paths(g, s, t, {s})])]

\* Rule (3) with the sum shared out among the members of the group.
ExpandTagsDivides(g, tags) ==
    LET expanded == ExpandedSet(g, tags)
        own == PreAliasFrequency(g, tags)
    IN [expanded |-> expanded,
        frequency |-> [t \in expanded |->
                          SumOver(GetAliasGroup(g, t) \cap expanded, own)
                              \div Cardinality(GetAliasGroup(g, t) \cap expanded)]]

ExpandTags(g, tags) ==
    LET expanded == ExpandedSet(g, tags)
        own == PreAliasFrequency(g, tags)
    IN [expanded |-> expanded,
        frequency |-> [t \in expanded |->
                          SumOver(GetAliasGroup(g, t) \cap expanded, own)]]

\* The tags of a set as a list, each once, in name order.
RECURSIVE SortedSeq(_)
SortedSeq(S) ==
    IF S = {} THEN <<>>
    ELSE LET m == CHOOSE x \in S : \A y \in S \ {x} : LexLess(x, y)
         IN <<m>> \o SortedSeq(S \ {m})

\* Lines 191-194: the graph expands the list the caller passed, as passed.
ExpandResultOfSet(g, tags) ==
    [expanded |-> ExpandTags(g, SortedSeq(Range(tags))).expanded,
     frequency |-> ExpandTags(g, SortedSeq(Range(tags))).frequency,
     none |-> FALSE]

ExpandResultOfLive(g, tags) ==
    [expanded |-> ExpandTags(g, SelectSeq(tags, LAMBDA t : t \notin g.deprecated)).expanded,
     frequency |-> ExpandTags(g, SelectSeq(tags, LAMBDA t : t \notin g.deprecated)).frequency,
     none |-> FALSE]

ExpandResult(g, tags) ==
    [expanded |-> ExpandTags(g, tags).expanded,
     frequency |-> ExpandTags(g, tags).frequency,
     none |-> FALSE]

\* ------------------------------------------- a call none of whose remote
\* calls fails, as a function of the remote and the graph it starts on
\* Lines 235-268 for one tag: the graph after it and the tags discovered.
FetchOne(rem, g, t) ==
    LET implied == {c \in ImplicationCandidates(rem, t, NoExc) :
                       ~ FetchTagDeprecatedStatus(rem, c, NoExc).value}
        als == {c \in AliasCandidates(rem, t, NoExc) :
                   ~ FetchTagDeprecatedStatus(rem, c, NoExc).value}
    IN IF FetchTagDeprecatedStatus(rem, t, NoExc).value
       THEN [graph |-> PopulateDeprecated(g, t), found |-> {}]
       ELSE [graph |-> PopulateTag(g, t, implied, als), found |-> implied \cup als]

\* _batch_fetch_tags, lines 230-274.
RECURSIVE BatchFetchTags(_, _, _)
BatchFetchTags(rem, g, tags) ==
    IF tags = {} THEN [graph |-> g, found |-> {}]
    ELSE LET t == CHOOSE x \in tags : TRUE
             one == FetchOne(rem, g, t)
             rest == BatchFetchTags(rem, one.graph, tags \ {t})
         IN [graph |-> rest.graph, found |-> one.found \cup rest.found]

\* The loop of _ensure_all_tags_fetched, lines 202-219.
RECURSIVE FetchLoop(_, _, _)
FetchLoop(rem, g, to_proc) ==
    IF GetUnfetchedTags(g, to_proc) = {} THEN g
    ELSE LET b == BatchFetchTags(rem, g, GetUnfetchedTags(g, to_proc))
         IN FetchLoop(rem, b.graph, to_proc \cup b.found)

\* _validate_alias_directionality, lines 609-674.
RECURSIVE FixPairs(_, _)
FixPairs(g, pairs) ==
    IF pairs = {} THEN g
    ELSE LET p == CHOOSE x \in pairs : TRUE
         IN FixPairs(FixPair(g, p), pairs \ {p})

ValidateAliasDirectionality(g) == FixPairs(g, BidirectionalPairs(g))

\* expand_tags, lines 181-194.
UninterruptedCall(rem, g, tags) ==
    LET g1 == ValidateAliasDirectionality(FetchLoop(rem, g, Range(tags)))
    IN [graph |-> g1, result |-> ExpandResult(g1, tags)]

\* ---------------------------------------------------------- read accessors
\* DanbooruTagGraph's queries with their include_deprecated flag.
Shown(g, S, include_deprecated) ==
    IF include_deprecated THEN S ELSE {x \in S : x \notin g.deprecated}

GetImplications(g, t, include_deprecated) ==
    Shown(g, {e[2] : e \in {x \in g.impl : x[1] = t}}, include_deprecated)

GetTransitiveImplicationsOf(g, t, include_deprecated) ==
    IF include_deprecated THEN Reach({t}, g.impl) \ {t}
    ELSE GetTransitiveImplications(g, t)

GetAliases(g, t, include_deprecated) ==
    Shown(g, {e[2] : e \in {x \in g.alias : x[1] = t}}, include_deprecated)

GetAliasedFrom(g, t, include_deprecated) ==
    Shown(g, {e[1] : e \in {x \in g.alias : x[2] = t}}, include_deprecated)

GetAliasGroupOf(g, t, include_deprecated) ==
    Shown(g, GetAliasGroup(g, t), include_deprecated) \cup {t}

\* get_semantic_relations, lines 547-572.
GetSemanticRelationsKeepsTag(g, t, include_deprecated) ==
    [direct_implications |-> GetImplications(g, t, include_deprecated),
     transitive_implications |-> GetTransitiveImplicationsOf(g, t, include_deprecated),
     direct_aliases |-> GetAliases(g, t, include_deprecated),
     aliased_from |-> GetAliasedFrom(g, t, include_deprecated),
     alias_group |-> GetAliasGroupOf(g, t, include_deprecated),
     is_canonical |-> IsCanonical(g, t),
     all_related |-> GetTransitiveImplicationsOf(g, t, include_deprecated)
                        \cup GetAliases(g, t, include_deprecated)
                        \cup GetAliasedFrom(g, t, include_deprecated)
                        \cup GetAliasGroupOf(g, t, include_deprecated)]

GetSemanticRelations(g, t, include_deprecated) ==
    LET direct_implications == GetImplications(g, t, include_deprecated)
        transitive_implications == GetTransitiveImplicationsOf(g, t, include_deprecated)
        direct_aliases == GetAliases(g, t, include_deprecated)
        aliased_from == GetAliasedFrom(g, t, include_deprecated)
        alias_group == GetAliasGroupOf(g, t, include_deprecated)
        all_related == (((transitive_implications \cup direct_aliases)
                            \cup aliased_from) \cup alias_group) \ {t}
    IN [direct_implications |-> direct_implications,
        transitive_implications |-> transitive_implications,
        direct_aliases |-> direct_aliases,
        aliased_from |-> aliased_from,
        alias_group |-> alias_group,
        is_canonical |-> IsCanonical(g, t),
        all_related |-> all_related]

NoRelations ==
    [direct_implications |-> {}, transitive_implications |-> {}, direct_aliases |-> {},
     aliased_from |-> {}, alias_group |-> {}, is_canonical |-> FALSE, all_related |-> {}]

\* What a read accessor returns: a list or set of tags, a bool or the dict.
NoValue == [tags |-> {}, bool |-> FALSE, relations |-> NoRelations]

AccessorOps ==
    {"get_implications", "get_transitive_implications", "get_aliases",
     "get_alias_group", "get_aliased_from", "is_canonical",
     "get_semantic_relations", "is_tag_cached"}

\* Lines 396, 421, 443, 468, 492, 516, 548-572 and 593.
AccessorValue(op, g, t, include_deprecated) ==
    CASE op = "get_implications" ->
            [NoValue EXCEPT !.tags = GetImplications(g, t, include_deprecated)]
      [] op = "get_transitive_implications" ->
            [NoValue EXCEPT !.tags = GetTransitiveImplicationsOf(g, t, include_deprecated)]
      [] op = "get_aliases" ->
            [NoValue EXCEPT !.tags = GetAliases(g, t, include_deprecated)]
      [] op = "get_alias_group" ->
            [NoValue EXCEPT !.tags = GetAliasGroupOf(g, t, include_deprecated)]
      [] op = "get_aliased_from" ->
            [NoValue EXCEPT !.tags = GetAliasedFrom(g, t, include_deprecated)]
      [] op = "is_canonical" ->
            [NoValue EXCEPT !.bool = IsCanonical(g, t)]
      [] op = "get_semantic_relations" ->
            [NoValue EXCEPT !.relations = GetSemanticRelations(g, t, include_deprecated)]
      [] op = "is_tag_cached" ->
            [NoValue EXCEPT !.bool = IsTagFetched(g, t)]

\* ------------------------------------------------------------------- state
VARIABLES
    remote,            \* the remote source: deprecated tags, implication and alias rows
    graph,             \* self.tag_graph, in memory
    saved,             \* the snapshot the graph last persisted
    pc,                \* where the orchestrator is
    callNo,            \* expand_tags calls started so far
    input,             \* tags, the argument of the current call
    to_process,        \* _ensure_all_tags_fetched
    batch,             \* the tags of `unfetched` the for loop has not reached yet
    newly_discovered,  \* _batch_fetch_tags
    tag,               \* the tag being fetched
    pending,           \* consequents of the response not checked yet
    implications,      \* _fetch_tag_implications' result so far
    aliases,           \* _fetch_tag_aliases' result so far
    valPairs,          \* bidirectional_pairs not fixed yet
    result,            \* what expand_tags returned
    nReq,              \* remote calls issued by the current call
    lastReq,           \* the latest remote call: endpoint, key, outcome
    nFail,             \* remote calls that raised so far
    errSeen,           \* the current call saw an error that is no rate limit
    prev,              \* the call before this one, when it returned
    doneThisCall,      \* tags whose fetch completed in the current call
    kept,              \* tags whose fetch completed in a call that was then aborted
    valFound,          \* the bidirectional pairs the validator found in this call
    valLog,            \* how the validator resolved each of them
    config,            \* the arguments and environment TagExpander(...) was built from
    answer,            \* what the latest read accessor returned
    clock,             \* time.time(), in ticks
    last_request_time, \* self._last_request_time
    fixing,            \* the validator's pair under repair: u, v, correct_direction
    peer               \* a second expander on the same graph object: its locals

\* The constructor arguments and the time: the fetch loop and the validator
\* neither read nor write them. (The specifications of the fetch loop leave
\* the time out; SpecRate has the throttle of _api_request.) Nor do they
\* touch the locals of the validator taken edge by edge (SpecRepair) and the
\* locals of a second expander (SpecPeers).
extra == <<config, clock, last_request_time, fixing, peer>>

vars == <<remote, graph, saved, pc, callNo, input, to_process, batch,
          newly_discovered, tag, pending, implications, aliases, valPairs,
          result, nReq, lastReq, nFail, errSeen, prev, doneThisCall, kept,
          valFound, valLog, config, answer, clock, last_request_time,
          fixing, peer>>

NoResult == [expanded |-> {}, frequency |-> <<>>, none |-> TRUE]
NoReq == [kind |-> "none", key |-> NoTag, for |-> NoTag, outcome |-> "none"]
NoPrev == [input |-> <<>>, none |-> TRUE]
NoAnswer == [op |-> "none"]
NoFix == [u |-> NoTag, v |-> NoTag, dir |-> <<>>]
NoPeer == [pc |-> "none", to_process |-> {}, batch |-> {}, newly_discovered |-> {},
           done |-> {}]

\* Input lists. The fetch loop works on set(initial_tags), so the lists are
\* taken in name order and without duplicates.
Inputs ==
    {s \in UNION {[1..n -> Tags] : n \in 0..MaxInputLen} :
        \A i, j \in DOMAIN s : i < j => LexLess(s[i], s[j])}

Outcomes == {NoExc} \cup Exceptions

Init ==
    /\ remote \in Remotes
    /\ graph = EmptyGraph
    /\ saved = EmptyGraph
    /\ pc = "idle"
    /\ callNo = 0
    /\ input = <<>>
    /\ to_process = {}
    /\ batch = {}
    /\ newly_discovered = {}
    /\ tag = NoTag
    /\ pending = {}
    /\ implications = {}
    /\ aliases = {}
    /\ valPairs = {}
    /\ result = NoResult
    /\ nReq = 0
    /\ lastReq = NoReq
    /\ nFail = 0
    /\ errSeen = FALSE
    /\ prev = NoPrev
    /\ doneThisCall = {}
    /\ kept = {}
    /\ valFound = {}
    /\ valLog = {}
    /\ config = DefaultConfig
    /\ answer = NoAnswer
    /\ clock = 0
    /\ last_request_time = 0
    /\ fixing = NoFix
    /\ peer = NoPeer

\* ----------------------------------------------------------------- actions
\* expand_tags(tags) is entered: lines 181-188 and 202.
StartCall(tags) ==
    /\ graph # NoGraph
    /\ pc \in {"idle", "done", "raised"}
    /\ answer' = NoAnswer
    /\ UNCHANGED extra
    /\ callNo < MaxCalls
    /\ callNo' = callNo + 1
    /\ input' = tags
    /\ to_process' = Range(tags)
    /\ pc' = "loop"
    /\ result' = NoResult
    /\ nReq' = 0
    /\ lastReq' = NoReq
    /\ errSeen' = FALSE
    /\ prev' = IF pc = "done"
               THEN [input |-> input, result |-> result, graph |-> graph, none |-> FALSE]
               ELSE NoPrev
    /\ doneThisCall' = {}
    /\ valFound' = {}
    /\ valLog' = {}
    /\ UNCHANGED <<remote, graph, saved, batch, newly_discovered, tag, pending,
                   implications, aliases, valPairs, nFail, kept>>

\* One remote call through _api_request, keyed by `key`, made while tag `for`
\* is being fetched, raising exc or not.
Request(kind, key, for, exc) ==
    /\ exc = NoExc \/ nFail < MaxFailures
    /\ nFail' = IF exc = NoExc THEN nFail ELSE nFail + 1
    /\ nReq' = nReq + 1
    /\ lastReq' = [kind |-> kind, key |-> key, for |-> for, outcome |-> ApiOutcome(exc)]
    /\ errSeen' = (errSeen \/ ApiOutcome(exc) = "empty")

\* RateLimitError leaves _batch_fetch_tags, _ensure_all_tags_fetched and
\* expand_tags (lines 269-272, 215-217, 188): nothing is returned.
RaiseAfterSave ==
    /\ pc' = "raised"
    /\ result' = NoResult
    /\ kept' = kept \cup doneThisCall
    /\ to_process' = {}
    /\ batch' = {}
    /\ newly_discovered' = {}
    /\ tag' = NoTag
    /\ pending' = {}
    /\ implications' = {}
    /\ aliases' = {}
    /\ saved' = graph
    /\ UNCHANGED <<remote, graph, callNo, input, valPairs, prev,
                   doneThisCall, valFound, valLog>>

Raise ==
    /\ pc' = "raised"
    /\ result' = NoResult
    /\ kept' = kept \cup doneThisCall
    /\ to_process' = {}
    /\ batch' = {}
    /\ newly_discovered' = {}
    /\ tag' = NoTag
    /\ pending' = {}
    /\ implications' = {}
    /\ aliases' = {}
    /\ UNCHANGED <<remote, graph, saved, callNo, input, valPairs, prev,
                   doneThisCall, valFound, valLog>>

\* Lines 204-208 and 218-219, and on leaving the loop lines 609-621.
LoopStep ==
    /\ UNCHANGED <<answer, extra>>
    /\ pc = "loop"
    /\ IF to_process # {} /\ GetUnfetchedTags(graph, to_process) # {}
       THEN /\ batch' = GetUnfetchedTags(graph, to_process)
            /\ newly_discovered' = {}
            /\ pc' = "tag"
            /\ UNCHANGED <<valPairs, valFound>>
       ELSE /\ valPairs' = BidirectionalPairs(graph)
            /\ valFound' = BidirectionalPairs(graph)
            /\ pc' = "validate"
            /\ UNCHANGED <<batch, newly_discovered>>
    /\ UNCHANGED <<remote, graph, saved, callNo, input, to_process, tag, pending,
                   implications, aliases, result, nReq, lastReq, nFail, errSeen,
                   prev, doneThisCall, kept, valLog>>

\* Lines 232-239 and 266-268: the next tag of the batch, its deprecated status.
FetchDeprecatedWritesFirst(t, exc) ==
    /\ UNCHANGED <<answer, extra>>
    /\ pc = "tag"
    /\ t \in batch
    /\ Request("dep", t, t, exc)
    /\ LET r == FetchTagDeprecatedStatus(remote, t, exc)
       IN IF r.raised THEN Raise
          ELSE /\ batch' = batch \ {t}
               /\ IF r.value
                  THEN /\ graph' = PopulateDeprecated(graph, t)
                       /\ doneThisCall' = doneThisCall \cup {t}
                       /\ pc' = "tag"
                       /\ tag' = NoTag
                  ELSE /\ pc' = "impl"
                       /\ tag' = t
                       /\ graph' = AddTag(graph, t, FALSE, TRUE)
                       /\ UNCHANGED doneThisCall
               /\ UNCHANGED <<remote, saved, callNo, input, to_process,
                              newly_discovered, pending, implications, aliases,
                              valPairs, result, prev, kept, valFound, valLog>>

FetchDeprecated(t, exc) ==
    /\ UNCHANGED <<answer, extra>>
    /\ pc = "tag"
    /\ t \in batch
    /\ Request("dep", t, t, exc)
    /\ LET r == FetchTagDeprecatedStatus(remote, t, exc)
       IN IF r.raised THEN Raise
          ELSE /\ batch' = batch \ {t}
               /\ IF r.value
                  THEN /\ graph' = PopulateDeprecated(graph, t)
                       /\ doneThisCall' = doneThisCall \cup {t}
                       /\ pc' = "tag"
                       /\ tag' = NoTag
                  ELSE /\ pc' = "impl"
                       /\ tag' = t
                       /\ UNCHANGED <<graph, doneThisCall>>
               /\ UNCHANGED <<remote, saved, callNo, input, to_process,
                              newly_discovered, pending, implications, aliases,
                              valPairs, result, prev, kept, valFound, valLog>>

\* Lines 304-309: the implications lookup of the tag.
FetchImplications(exc) ==
    /\ UNCHANGED <<answer, extra>>
    /\ pc = "impl"
    /\ Request("impl", tag, tag, exc)
    /\ IF ApiOutcome(exc) = "ratelimit" THEN Raise
       ELSE /\ pending' = ImplicationCandidates(remote, tag, exc)
            /\ implications' = {}
            /\ pc' = IF ImplicationCandidates(remote, tag, exc) = {} THEN "alias" ELSE "implDep"
            /\ UNCHANGED <<remote, graph, saved, callNo, input, to_process, batch,
                           newly_discovered, tag, aliases, valPairs, result, prev,
                           doneThisCall, kept, valFound, valLog>>

\* Lines 310-315: one consequent of the response, its deprecated status.
ImplDep(c, exc) ==
    /\ UNCHANGED <<answer, extra>>
    /\ pc = "implDep"
    /\ c \in pending
    /\ Request("dep", c, tag, exc)
    /\ LET r == FetchTagDeprecatedStatus(remote, c, exc)
       IN IF r.raised THEN Raise
          ELSE /\ implications' = IF r.value THEN implications ELSE implications \cup {c}
               /\ pending' = pending \ {c}
               /\ pc' = IF pending \ {c} = {} THEN "alias" ELSE "implDep"
               /\ UNCHANGED <<remote, graph, saved, callNo, input, to_process, batch,
                              newly_discovered, tag, aliases, valPairs, result, prev,
                              doneThisCall, kept, valFound, valLog>>

\* Lines 338-347: the aliases lookup of the tag.
FetchAliases(exc) ==
    /\ UNCHANGED <<answer, extra>>
    /\ pc = "alias"
    /\ Request("alias", tag, tag, exc)
    /\ IF ApiOutcome(exc) = "ratelimit" THEN Raise
       ELSE /\ pending' = AliasCandidates(remote, tag, exc)
            /\ aliases' = {}
            /\ pc' = IF AliasCandidates(remote, tag, exc) = {} THEN "write" ELSE "aliasDep"
            /\ UNCHANGED <<remote, graph, saved, callNo, input, to_process, batch,
                           newly_discovered, tag, implications, valPairs, result, prev,
                           doneThisCall, kept, valFound, valLog>>

\* Lines 348-360: one consequent of the response, its deprecated status.
AliasDep(c, exc) ==
    /\ UNCHANGED <<answer, extra>>
    /\ pc = "aliasDep"
    /\ c \in pending
    /\ Request("dep", c, tag, exc)
    /\ LET r == FetchTagDeprecatedStatus(remote, c, exc)
       IN IF r.raised THEN Raise
          ELSE /\ aliases' = IF r.value THEN aliases ELSE aliases \cup {c}
               /\ pending' = pending \ {c}
               /\ pc' = IF pending \ {c} = {} THEN "write" ELSE "aliasDep"
               /\ UNCHANGED <<remote, graph, saved, callNo, input, to_process, batch,
                              newly_discovered, tag, implications, valPairs, result,
                              prev, doneThisCall, kept, valFound, valLog>>

\* Lines 244-265: the graph writes for the tag, the consequents discovered.
WriteTag ==
    /\ UNCHANGED <<answer, extra>>
    /\ pc = "write"
    /\ graph' = PopulateTag(graph, tag, implications, aliases)
    /\ newly_discovered' = newly_discovered \cup implications \cup aliases
    /\ doneThisCall' = doneThisCall \cup {tag}
    /\ tag' = NoTag
    /\ implications' = {}
    /\ aliases' = {}
    /\ pc' = "tag"
    /\ UNCHANGED <<remote, saved, callNo, input, to_process, batch, pending,
                   valPairs, result, nReq, lastReq, nFail, errSeen, prev, kept,
                   valFound, valLog>>

\* Lines 244-265 one graph operation at a time, as another caller of the
\* graph sees them: add_tag (line 245), then add_implication for each implied
\* tag (lines 247-249), then add_alias and the mark for each alias (lines
\* 254-265). The fetch of the tag is complete after the last of them.
WriteDone(left) ==
    /\ pc' = IF left = {} THEN "tag" ELSE "edges"
    /\ tag' = IF left = {} THEN NoTag ELSE tag
    /\ doneThisCall' = IF left = {} THEN doneThisCall \cup {tag} ELSE doneThisCall

AddTagStep ==
    /\ UNCHANGED <<answer, extra>>
    /\ pc = "write"
    /\ graph' = AddTag(graph, tag, FALSE, TRUE)
    /\ WriteDone(implications \cup aliases)
    /\ UNCHANGED <<remote, saved, callNo, input, to_process, batch, newly_discovered,
                   pending, implications, aliases, valPairs, result, nReq, lastReq,
                   nFail, errSeen, prev, kept, valFound, valLog>>

AddImplicationStep(c) ==
    /\ UNCHANGED <<answer, extra>>
    /\ pc = "edges"
    /\ c \in implications
    /\ graph' = AddImplication(graph, tag, c)
    /\ newly_discovered' = newly_discovered \cup {c}
    /\ implications' = implications \ {c}
    /\ WriteDone((implications \ {c}) \cup aliases)
    /\ UNCHANGED <<remote, saved, callNo, input, to_process, batch, pending, aliases,
                   valPairs, result, nReq, lastReq, nFail, errSeen, prev, kept,
                   valFound, valLog>>

AddAliasStep(c) ==
    /\ UNCHANGED <<answer, extra>>
    /\ pc = "edges"
    /\ implications = {}
    /\ c \in aliases
    /\ graph' = AddAliasAndMark(graph, tag, c)
    /\ newly_discovered' = newly_discovered \cup {c}
    /\ aliases' = aliases \ {c}
    /\ WriteDone(aliases \ {c})
    /\ UNCHANGED <<remote, saved, callNo, input, to_process, batch, pending,
                   implications, valPairs, result, nReq, lastReq, nFail, errSeen,
                   prev, kept, valFound, valLog>>

\* Lines 211-214: the batch returned; to_process grows, auto_save.
EndBatch ==
    /\ UNCHANGED <<answer, extra>>
    /\ pc = "tag"
    /\ batch = {}
    /\ to_process' = to_process \cup newly_discovered
    /\ newly_discovered' = {}
    /\ saved' = graph
    /\ pc' = "loop"
    /\ UNCHANGED <<remote, graph, callNo, input, batch, tag, pending, implications,
                   aliases, valPairs, result, nReq, lastReq, nFail, errSeen, prev,
                   doneThisCall, kept, valFound, valLog>>

\* Lines 624-674: one bidirectional pair fixed.
ResolvePair(pair) ==
    /\ UNCHANGED <<answer, extra>>
    /\ pc = "validate"
    /\ pair \in valPairs
    /\ graph' = FixPair(graph, pair)
    /\ valPairs' = valPairs \ {pair}
    /\ valLog' = valLog \cup
          {[u |-> pair[1], v |-> pair[2],
            u_canonical |-> IsCanonical(graph, pair[1]),
            v_canonical |-> IsCanonical(graph, pair[2]),
            dir |-> CorrectDirection(pair[1], pair[2],
                        IsCanonical(graph, pair[1]), IsCanonical(graph, pair[2]))]}
    /\ UNCHANGED <<remote, saved, pc, callNo, input, to_process, batch,
                   newly_discovered, tag, pending, implications, aliases, result,
                   nReq, lastReq, nFail, errSeen, prev, doneThisCall, kept, valFound>>

\* The fix of one pair one statement at a time, as another caller of the
\* graph sees it. Lines 624-659: the pair and its direction.
ChooseDirection(pair) ==
    /\ pc = "validate"
    /\ pair \in valPairs
    /\ fixing' = [u |-> pair[1], v |-> pair[2],
                  dir |-> CorrectDirection(pair[1], pair[2],
                              IsCanonical(graph, pair[1]), IsCanonical(graph, pair[2]))]
    /\ valPairs' = valPairs \ {pair}
    /\ valLog' = valLog \cup
          {[u |-> pair[1], v |-> pair[2],
            u_canonical |-> IsCanonical(graph, pair[1]),
            v_canonical |-> IsCanonical(graph, pair[2]),
            dir |-> CorrectDirection(pair[1], pair[2],
                        IsCanonical(graph, pair[1]), IsCanonical(graph, pair[2]))]}
    /\ pc' = "remove_uv"
    /\ UNCHANGED <<remote, graph, saved, callNo, input, to_process, batch,
                   newly_discovered, tag, pending, implications, aliases, result,
                   nReq, lastReq, nFail, errSeen, prev, doneThisCall, kept, valFound,
                   config, answer, clock, last_request_time, peer>>

\* Lines 665-667: self.tag_graph.graph.remove_edge(u, v), on the networkx
\* graph itself.
RemoveForward ==
    /\ pc = "remove_uv"
    /\ graph' = IF HasEdge(graph, fixing.u, fixing.v)
                THEN RemoveEdge(graph, fixing.u, fixing.v) ELSE graph
    /\ pc' = "remove_vu"
    /\ UNCHANGED <<remote, saved, callNo, input, to_process, batch, newly_discovered,
                   tag, pending, implications, aliases, valPairs, result, nReq,
                   lastReq, nFail, errSeen, prev, doneThisCall, kept, valFound,
                   valLog, answer, extra>>

\* Lines 668-670.
RemoveBackward ==
    /\ pc = "remove_vu"
    /\ graph' = IF HasEdge(graph, fixing.v, fixing.u)
                THEN RemoveEdge(graph, fixing.v, fixing.u) ELSE graph
    /\ pc' = "add_alias"
    /\ UNCHANGED <<remote, saved, callNo, input, to_process, batch, newly_discovered,
                   tag, pending, implications, aliases, valPairs, result, nReq,
                   lastReq, nFail, errSeen, prev, doneThisCall, kept, valFound,
                   valLog, answer, extra>>

\* Line 674: self.tag_graph.add_alias(antecedent, consequent).
AddResolved ==
    /\ pc = "add_alias"
    /\ graph' = AddAlias(graph, fixing.dir[1], fixing.dir[2])
    /\ fixing' = NoFix
    /\ pc' = "validate"
    /\ UNCHANGED <<remote, saved, callNo, input, to_process, batch, newly_discovered,
                   tag, pending, implications, aliases, valPairs, result, nReq,
                   lastReq, nFail, errSeen, prev, doneThisCall, kept, valFound,
                   valLog, config, answer, clock, last_request_time, peer>>

\* Another caller of the same graph object asks for the alias group of a tag
\* while this expander is at work: one operation of the graph, under its lock.
OtherCallerReads(t) ==
    /\ graph # NoGraph
    /\ answer' = [op |-> "get_alias_group", tag |-> t, include_deprecated |-> TRUE,
                  error |-> "none",
                  value |-> AccessorValue("get_alias_group", graph, t, TRUE)]
    /\ UNCHANGED <<remote, graph, saved, pc, callNo, input, to_process, batch,
                   newly_discovered, tag, pending, implications, aliases, valPairs,
                   result, nReq, lastReq, nFail, errSeen, prev, doneThisCall, kept,
                   valFound, valLog, extra>>

\* A second expander built on the same graph object (tag_graph=...) and run
\* by another thread: its expand_tags(tags), none of its remote calls
\* failing, a tag's fetch and the validator each taken as one step.
PeerLeaves ==
    UNCHANGED <<remote, pc, callNo, input, to_process, batch, newly_discovered, tag,
                pending, implications, aliases, valPairs, result, nReq, lastReq, nFail,
                errSeen, prev, doneThisCall, kept, valFound, valLog, config, answer,
                clock, last_request_time, fixing>>

\* Line 202.
PeerStart(tags) ==
    /\ graph # NoGraph
    /\ peer.pc = "none"
    /\ peer' = [NoPeer EXCEPT !.pc = "loop", !.to_process = Range(tags)]
    /\ UNCHANGED <<graph, saved>>
    /\ PeerLeaves

\* Lines 204-208, 218-222.
PeerLoopStep ==
    /\ peer.pc = "loop"
    /\ IF GetUnfetchedTags(graph, peer.to_process) # {}
       THEN /\ peer' = [peer EXCEPT !.pc = "tag",
                                    !.batch = GetUnfetchedTags(graph, peer.to_process),
                                    !.newly_discovered = {}]
            /\ UNCHANGED graph
       ELSE /\ peer' = [peer EXCEPT !.pc = "done"]
            /\ graph' = ValidateAliasDirectionality(graph)
    /\ UNCHANGED saved
    /\ PeerLeaves

\* Lines 232-268.
PeerFetchTag(t) ==
    /\ peer.pc = "tag"
    /\ t \in peer.batch
    /\ graph' = FetchOne(remote, graph, t).graph
    /\ peer' = [peer EXCEPT !.batch = @ \ {t},
                            !.newly_discovered = @ \cup FetchOne(remote, graph, t).found,
                            !.done = @ \cup {t}]
    /\ UNCHANGED saved
    /\ PeerLeaves

\* Lines 211-214.
PeerEndBatch ==
    /\ peer.pc = "tag"
    /\ peer.batch = {}
    /\ peer' = [peer EXCEPT !.pc = "loop",
                            !.to_process = @ \cup peer.newly_discovered,
                            !.newly_discovered = {}]
    /\ saved' = graph
    /\ UNCHANGED graph
    /\ PeerLeaves

\* Lines 190-194: the validator is through; the closure and its frequencies.
FinishCall ==
    /\ UNCHANGED <<answer, extra>>
    /\ pc = "validate"
    /\ valPairs = {}
    /\ result' = ExpandResult(graph, input)
    /\ pc' = "done"
    /\ to_process' = {}
    /\ UNCHANGED <<remote, graph, saved, callNo, input, batch, newly_discovered,
                   tag, pending, implications, aliases, valPairs, nReq, lastReq,
                   nFail, errSeen, prev, doneThisCall, kept, valFound, valLog>>

\* expand_tags(tags) without a graph: the RuntimeError of lines 181-182.
ExpandTagsNoCache(tags) ==
    /\ graph = NoGraph
    /\ pc \in {"idle", "cache_error"}
    /\ callNo < MaxCalls
    /\ callNo' = callNo + 1
    /\ input' = tags
    /\ pc' = "cache_error"
    /\ result' = NoResult
    /\ answer' = NoAnswer
    /\ nReq' = 0
    /\ lastReq' = NoReq
    /\ UNCHANGED <<remote, graph, saved, to_process, batch, newly_discovered, tag,
                   pending, implications, aliases, valPairs, nFail, errSeen, prev,
                   doneThisCall, kept, valFound, valLog, extra>>

\* A read accessor called between two expand_tags calls: the RuntimeError of
\* its first statement, or the graph's answer. The caller goes on with the
\* answer; what expand_tags returned before is let go.
Accessor(op, t, include_deprecated) ==
    /\ pc \in {"idle", "done", "raised", "cache_error"}
    /\ answer' = IF graph = NoGraph
                 THEN [op |-> op, tag |-> t, include_deprecated |-> include_deprecated,
                       error |-> "RuntimeError", value |-> NoValue]
                 ELSE [op |-> op, tag |-> t, include_deprecated |-> include_deprecated,
                       error |-> "none",
                       value |-> AccessorValue(op, graph, t, include_deprecated)]
    /\ pc' = "idle"
    /\ result' = NoResult
    /\ UNCHANGED <<remote, graph, saved, callNo, input, to_process, batch,
                   newly_discovered, tag, pending, implications, aliases, valPairs,
                   nReq, lastReq, nFail, errSeen, prev, doneThisCall, kept,
                   valFound, valLog, extra>>

get_implications(t, include_deprecated) ==
    Accessor("get_implications", t, include_deprecated)
get_transitive_implications(t, include_deprecated) ==
    Accessor("get_transitive_implications", t, include_deprecated)
get_aliases(t, include_deprecated) ==
    Accessor("get_aliases", t, include_deprecated)
get_alias_group(t, include_deprecated) ==
    Accessor("get_alias_group", t, include_deprecated)
get_aliased_from(t, include_deprecated) ==
    Accessor("get_aliased_from", t, include_deprecated)
is_canonical(t) ==
    Accessor("is_canonical", t, FALSE)
get_semantic_relations(t, include_deprecated) ==
    Accessor("get_semantic_relations", t, include_deprecated)
is_tag_cached(t) ==
    Accessor("is_tag_cached", t, FALSE)

ReadAccessors ==
    \/ \E t \in Tags, d \in BOOLEAN : get_implications(t, d)
    \/ \E t \in Tags, d \in BOOLEAN : get_transitive_implications(t, d)
    \/ \E t \in Tags, d \in BOOLEAN : get_aliases(t, d)
    \/ \E t \in Tags, d \in BOOLEAN : get_alias_group(t, d)
    \/ \E t \in Tags, d \in BOOLEAN : get_aliased_from(t, d)
    \/ \E t \in Tags : is_canonical(t)
    \/ \E t \in Tags, d \in BOOLEAN : get_semantic_relations(t, d)
    \/ \E t \in Tags : is_tag_cached(t)

\* _api_request as a whole, lines 122-157, called by the one thread: the
\* sleep (time.sleep may return late by `late` ticks), the timestamp, then
\* the call, which returns or raises.
ApiRequest(exc, late) ==
    /\ pc = "idle"
    /\ nReq < MaxRequests
    /\ LET sleep_time == SleepTime(clock, last_request_time, config.request_delay)
           woke == clock + sleep_time + (IF sleep_time > 0 THEN late ELSE 0)
       IN /\ woke <= MaxClock
          /\ clock' = woke
          /\ last_request_time' = woke
    /\ Request("dep", tA, tA, exc)
    /\ UNCHANGED <<remote, graph, saved, pc, callNo, input, to_process, batch,
                   newly_discovered, tag, pending, implications, aliases, valPairs,
                   result, prev, doneThisCall, kept, valFound, valLog, config, answer,
                   fixing, peer>>

\* Time passes between two calls.
Pause(d) ==
    /\ pc = "idle"
    /\ clock + d <= MaxClock
    /\ clock' = clock + d
    /\ UNCHANGED <<remote, graph, saved, pc, callNo, input, to_process, batch,
                   newly_discovered, tag, pending, implications, aliases, valPairs,
                   result, nReq, lastReq, nFail, errSeen, prev, doneThisCall, kept,
                   valFound, valLog, config, answer, last_request_time, fixing, peer>>

Next ==
    \/ \E tags \in Inputs : StartCall(tags)
    \/ LoopStep
    \/ \E t \in Tags, exc \in Outcomes : FetchDeprecated(t, exc)
    \/ \E exc \in Outcomes : FetchImplications(exc)
    \/ \E c \in Tags, exc \in Outcomes : ImplDep(c, exc)
    \/ \E exc \in Outcomes : FetchAliases(exc)
    \/ \E c \in Tags, exc \in Outcomes : AliasDep(c, exc)
    \/ WriteTag
    \/ EndBatch
    \/ \E pair \in Tags \X Tags : ResolvePair(pair)
    \/ FinishCall

Spec == Init /\ [][Next]_vars

\* ------------------------------------------- the validator on any graph
\* The graph an expander is handed (tag_graph=...) or loads from its cache
\* file can hold any alias edges. SpecVal starts where the fetch loop has
\* just been left on such a graph (line 222) and runs the validator.
AllPairs == {p \in Tags \X Tags : p[1] # p[2]}

LoadedGraphs ==
    {[nodes |-> Tags, fetched |-> Tags, deprecated |-> {}, impl |-> i, alias |-> a] :
        i \in SmallSets(AllPairs, MaxLoadedImpl), a \in SUBSET AllPairs}

InitVal ==
    /\ remote = [dep |-> {}, impl |-> {}, alias |-> {}]
    /\ graph \in LoadedGraphs
    /\ saved = graph
    /\ pc = "validate"
    /\ callNo = 1
    /\ input \in Inputs
    /\ to_process = Range(input)
    /\ batch = {}
    /\ newly_discovered = {}
    /\ tag = NoTag
    /\ pending = {}
    /\ implications = {}
    /\ aliases = {}
    /\ valPairs = BidirectionalPairs(graph)
    /\ result = NoResult
    /\ nReq = 0
    /\ lastReq = NoReq
    /\ nFail = 0
    /\ errSeen = FALSE
    /\ prev = NoPrev
    /\ doneThisCall = {}
    /\ kept = {}
    /\ valFound = BidirectionalPairs(graph)
    /\ valLog = {}
    /\ config = DefaultConfig
    /\ answer = NoAnswer
    /\ clock = 0
    /\ last_request_time = 0
    /\ fixing = NoFix
    /\ peer = NoPeer

NextVal ==
    \/ \E pair \in Tags \X Tags : ResolvePair(pair)
    \/ FinishCall

SpecVal == InitVal /\ [][NextVal]_vars

\* SpecRepair: the validator on any loaded graph, the fix of a pair taken one
\* statement at a time, with another caller reading the graph in between.
NextRepair ==
    \/ \E pair \in Tags \X Tags : ChooseDirection(pair)
    \/ RemoveForward
    \/ RemoveBackward
    \/ AddResolved
    \/ \E t \in Tags : OtherCallerReads(t)
    \/ FinishCall

SpecRepair == InitVal /\ [][NextRepair]_vars

\* ----------------------------------- expand_tags and the accessors, warm
\* A graph whose tags have all been fetched: expand_tags needs no remote call.
CachedGraphs ==
    {g \in [nodes : {Tags}, fetched : {Tags},
            deprecated : SmallSets(Tags, MaxDeprecated),
            impl : SmallSets(AllPairs, MaxCachedEdges),
            alias : SmallSets(AllPairs, MaxCachedEdges)] :
        Cardinality(g.impl) + Cardinality(g.alias) <= MaxCachedEdges}

\* Input lists in any order, tags repeated or not.
ListInputs == UNION {[1..n -> Tags] : n \in 0..MaxListLen}

\* No call has been made yet.
Quiet ==
    /\ input = <<>>
    /\ to_process = {}
    /\ batch = {}
    /\ newly_discovered = {}
    /\ tag = NoTag
    /\ pending = {}
    /\ implications = {}
    /\ aliases = {}
    /\ valPairs = {}
    /\ result = NoResult
    /\ nReq = 0
    /\ lastReq = NoReq
    /\ nFail = 0
    /\ errSeen = FALSE
    /\ prev = NoPrev
    /\ doneThisCall = {}
    /\ kept = {}
    /\ valFound = {}
    /\ valLog = {}
    /\ answer = NoAnswer
    /\ clock = 0
    /\ last_request_time = 0
    /\ fixing = NoFix
    /\ peer = NoPeer

\* SpecExp: an expander on a warm cache file and one expand_tags call on any
\* list. SpecAcc: the same expander and its read accessors.
InitExp ==
    /\ Quiet
    /\ remote = [dep |-> {}, impl |-> {}, alias |-> {}]
    /\ saved \in CachedGraphs
    /\ config = DefaultConfig
    /\ graph = Construct(config, saved).tag_graph
    /\ pc = "idle"
    /\ callNo = MaxCalls - 1

NextExp ==
    \/ \E tags \in ListInputs : StartCall(tags)
    \/ LoopStep
    \/ \E pair \in Tags \X Tags : ResolvePair(pair)
    \/ FinishCall

SpecExp == InitExp /\ [][NextExp]_vars

NextAcc == ReadAccessors

SpecAcc == InitExp /\ [][NextAcc]_vars

\* SpecFix: the validator on graphs whose tags differ in their attributes,
\* then the same call once more. The sources address an edge by its two end
\* points and read one edge_type from it (lines 610-611, 665-670): the graphs
\* hold one edge, of one type, per ordered pair of tags.
AttributedGraphs ==
    {g \in [nodes : {Tags},
            fetched : {Tags \ d : d \in SmallSets(Tags, 1)},
            deprecated : SmallSets(Tags, MaxDeprecated),
            impl : SmallSets(AllPairs, MaxLoadedImpl),
            alias : SUBSET AllPairs] :
        g.impl \cap g.alias = {}}

InitFix ==
    /\ Quiet
    /\ remote = [dep |-> {}, impl |-> {}, alias |-> {}]
    /\ graph \in AttributedGraphs
    /\ saved = graph
    /\ config = [DefaultConfig EXCEPT !.tag_graph = graph]
    /\ pc = "idle"
    /\ callNo = 0

\* The calls whose tags are all fetched: the loop is left at once.
NextFix ==
    \/ \E tags \in Inputs :
          /\ Range(tags) \subseteq graph.fetched
          /\ pc = "done" => tags = input
          /\ StartCall(tags)
    \/ LoopStep
    \/ \E pair \in Tags \X Tags : ResolvePair(pair)
    \/ FinishCall

SpecFix == InitFix /\ [][NextFix]_vars

\* SpecCfg: TagExpander(...) built from any arguments and environment, then
\* one expand_tags call and the read accessors.
\* The graphs handed in or found in the cache file: tA implies tB or not, tA and
\* tAB aliases of each other or not.
SuppliedGraphs ==
    {g \in CachedGraphs :
        /\ g.deprecated = {}
        /\ g.impl \subseteq {<<tA, tB>>}
        /\ g.alias \in {{}, {<<tA, tAB>>, <<tAB, tA>>}}}

Configs ==
    [tag_graph : {NoGraph} \cup SuppliedGraphs, use_cache : BOOLEAN,
     cache_dir : CacheDirs, env_cache_dir : CacheDirs, request_delay : {1}]

InitCfg ==
    /\ Quiet
    /\ remote = [dep |-> {}, impl |-> {}, alias |-> {}]
    /\ saved \in SuppliedGraphs
    /\ config \in Configs
    /\ graph = Construct(config, saved).tag_graph
    /\ pc = IF Construct(config, saved).failed THEN "no_expander" ELSE "idle"
    /\ callNo = MaxCalls - 1

NextCfg ==
    \/ \E tags \in Inputs : StartCall(tags)
    \/ \E tags \in Inputs : ExpandTagsNoCache(tags)
    \/ LoopStep
    \/ \E pair \in Tags \X Tags : ResolvePair(pair)
    \/ FinishCall
    \/ ReadAccessors

SpecCfg == InitCfg /\ [][NextCfg]_vars

\* SpecLive: one expand_tags call on an empty graph, running on: the thread
\* is never stopped and every remote call comes back (returns or raises).
InitLive ==
    /\ Quiet
    /\ remote \in Remotes
    /\ saved = EmptyGraph
    /\ config = DefaultConfig
    /\ graph = Construct(config, saved).tag_graph
    /\ pc = "idle"
    /\ callNo = MaxCalls - 1

\* The steps of a call under way.
Running ==
    \/ LoopStep
    \/ \E t \in Tags, exc \in Outcomes : FetchDeprecated(t, exc)
    \/ \E exc \in Outcomes : FetchImplications(exc)
    \/ \E c \in Tags, exc \in Outcomes : ImplDep(c, exc)
    \/ \E exc \in Outcomes : FetchAliases(exc)
    \/ \E c \in Tags, exc \in Outcomes : AliasDep(c, exc)
    \/ WriteTag
    \/ EndBatch
    \/ \E pair \in Tags \X Tags : ResolvePair(pair)
    \/ FinishCall

SpecLive == InitLive /\ [][Next]_vars /\ WF_vars(Running)

\* SpecOne: one expand_tags call on an empty graph, any remote, failures.
SpecOne == InitLive /\ [][Next]_vars

\* SpecWrite: one expand_tags call on an empty graph, the graph writes of a
\* tag taken one graph operation at a time.
NextWrite ==
    \/ \E tags \in Inputs : StartCall(tags)
    \/ LoopStep
    \/ \E t \in Tags, exc \in Outcomes : FetchDeprecated(t, exc)
    \/ \E exc \in Outcomes : FetchImplications(exc)
    \/ \E c \in Tags, exc \in Outcomes : ImplDep(c, exc)
    \/ \E exc \in Outcomes : FetchAliases(exc)
    \/ \E c \in Tags, exc \in Outcomes : AliasDep(c, exc)
    \/ AddTagStep
    \/ \E c \in Tags : AddImplicationStep(c)
    \/ \E c \in Tags : AddAliasStep(c)
    \/ EndBatch
    \/ \E pair \in Tags \X Tags : ResolvePair(pair)
    \/ FinishCall

SpecWrite == InitLive /\ [][NextWrite]_vars

\* SpecRetry: a call on a fresh cache and, when a rate limit has ended it,
\* the same call once more.
NextRetry ==
    \/ \E tags \in Inputs :
          /\ pc \in {"idle", "raised"}
          /\ pc = "raised" => tags = input
          /\ StartCall(tags)
    \/ LoopStep
    \/ \E t \in Tags, exc \in Outcomes : FetchDeprecated(t, exc)
    \/ \E exc \in Outcomes : FetchImplications(exc)
    \/ \E c \in Tags, exc \in Outcomes : ImplDep(c, exc)
    \/ \E exc \in Outcomes : FetchAliases(exc)
    \/ \E c \in Tags, exc \in Outcomes : AliasDep(c, exc)
    \/ WriteTag
    \/ EndBatch
    \/ \E pair \in Tags \X Tags : ResolvePair(pair)
    \/ FinishCall

SpecRetry == Init /\ [][NextRetry]_vars

\* SpecPeers: two expanders on one graph object, each making one call, no
\* remote call failing, no tag deprecated and every remote row active.
PeerRemotes ==
    {r \in Remotes : r.dep = {} /\ \A row \in r.impl \cup r.alias : row.active}

InitPeers ==
    /\ Quiet
    /\ remote \in PeerRemotes
    /\ saved = EmptyGraph
    /\ config = DefaultConfig
    /\ graph = Construct(config, saved).tag_graph
    /\ pc = "idle"
    /\ callNo = MaxCalls - 1

NextPeers ==
    \/ \E tags \in Inputs : StartCall(tags)
    \/ LoopStep
    \/ \E t \in Tags : FetchDeprecated(t, NoExc)
    \/ FetchImplications(NoExc)
    \/ \E c \in Tags : ImplDep(c, NoExc)
    \/ FetchAliases(NoExc)
    \/ \E c \in Tags : AliasDep(c, NoExc)
    \/ WriteTag
    \/ EndBatch
    \/ \E pair \in Tags \X Tags : ResolvePair(pair)
    \/ FinishCall
    \/ \E tags \in Inputs : PeerStart(tags)
    \/ PeerLoopStep
    \/ \E t \in Tags : PeerFetchTag(t)
    \/ PeerEndBatch

SpecPeers == InitPeers /\ [][NextPeers]_vars

\* SpecRate: the throttle of _api_request on one expander, any request_delay,
\* calls and pauses in any order on one thread.
InitRate ==
    /\ Quiet
    /\ remote = [dep |-> {}, impl |-> {}, alias |-> {}]
    /\ saved = EmptyGraph
    /\ config \in {[DefaultConfig EXCEPT !.request_delay = d] : d \in 0..MaxDelay}
    /\ graph = Construct(config, saved).tag_graph
    /\ pc = "idle"
    /\ callNo = 0

NextRate ==
    \/ \E exc \in Outcomes, late \in 0..MaxPause : ApiRequest(exc, late)
    \/ \E d \in 1..MaxPause : Pause(d)

SpecRate == InitRate /\ [][NextRate]_vars

\* ================================================================== claims
\* The active relationships of the remote between tags it does not report
\* as deprecated.
RemoteImplications == {<<r.ante, r.cons>> : r \in {x \in remote.impl : x.active}}
RemoteAliases == {<<r.ante, r.cons>> : r \in {x \in remote.alias : x.active}}
Live(E) == {e \in E : e[1] \notin remote.dep /\ e[2] \notin remote.dep}
RemoteReachable(S) ==
    Reach(S \ remote.dep, Live(RemoteImplications) \cup Live(RemoteAliases))

\* C1: when expand_tags has returned and no remote call has ever failed, the
\* graph holds every active implication and alias the remote reports for
\* every non-deprecated tag reachable from the input (relationships to
\* deprecated consequents, which the fetch discards, are left aside).
C1_GraphCoversReachable ==
    (pc = "done" /\ nFail = 0) =>
        \A t \in RemoteReachable(Range(input)) :
            /\ \A e \in Live(RemoteImplications) : e[1] = t => e \in graph.impl
            /\ \A e \in Live(RemoteAliases) : e[1] = t => e \in graph.alias

\* C2: a remote call on which _api_request raises RateLimitError (a nested
\* deprecated-status lookup included) ends the call in the raised state, with
\* no result; and a raised call holds no result.
C2_RateLimitPropagates ==
    /\ [](pc = "raised" => result.none)
    /\ [][(nReq' # nReq /\ lastReq'.outcome = "ratelimit")
            => (pc' = "raised" /\ result'.none)]_vars

C2_Witness ==
    /\ pc = "raised"
    /\ lastReq.kind = "dep"
    /\ lastReq.for # lastReq.key
    /\ lastReq.outcome = "ratelimit"

\* C3: a call that follows a call that returned, on the same input, returns
\* the same (expanded set, frequencies), issues no remote call and leaves the
\* graph as the first call left it.
C3_SecondCallIdempotent ==
    (pc = "done" /\ ~ prev.none /\ prev.input = input) =>
        /\ result = prev.result
        /\ nReq = 0
        /\ graph = prev.graph

C3_Witness ==
    /\ pc = "done"
    /\ ~ prev.none
    /\ prev.input = input
    /\ Len(input) = 2
    /\ graph.alias # {}
    /\ Cardinality(result.expanded) >= 2

\* C4: when expand_tags has gone through its fetch loop and the validator, no
\* two tags have alias edges in both directions.
C4_NoBidirectionalAfterCall ==
    pc = "done" =>
        \A u, v \in Tags : ~ (<<u, v>> \in graph.alias /\ <<v, u>> \in graph.alias)

C4_Witness == pc = "done" /\ valFound # {}

\* C5: when expand_tags has returned, every tag reachable from the input over
\* the graph's implication and alias edges is marked fetched.
C5_ReachableAreFetched ==
    pc = "done" =>
        \A t \in Reach(Range(input), graph.impl \cup graph.alias) : IsTagFetched(graph, t)

\* is_tag_cached, line 593.
IsTagCached(t) == IsTagFetched(graph, t)

\* C6: a tag whose fetch completed in a call that a rate limit then aborted
\* is reported cached ever after, and no later call fetches it again (no
\* lookup of its own fetch is keyed by it).
C6_FetchedSurviveAbort ==
    /\ [](\A t \in kept : IsTagCached(t))
    /\ [][(nReq' # nReq /\ lastReq'.for = lastReq'.key) => lastReq'.key \notin kept]_vars

C6_Witness ==
    /\ callNo = 2
    /\ pc = "done"
    /\ nReq > 0
    /\ kept \cap Range(input) # {}

\* C7: no remote call is keyed by a tag that the graph already marks fetched.
C7_NoCallKeyedByFetchedTag ==
    [][nReq' # nReq => ~ IsTagFetched(graph, lastReq'.key)]_vars

\* C8: when a rate limit aborts the call, every tag fetched in this call and
\* every edge recorded for it is in the snapshot auto_save wrote.
C8_AbortedWorkIsSaved ==
    pc = "raised" =>
        \A t \in doneThisCall :
            /\ t \in saved.fetched
            /\ \A e \in graph.impl \cup graph.alias :
                  e[1] = t => e \in saved.impl \cup saved.alias

\* The antecedent the rule chain names for the pair {u, v}.
Longer(u, v) == IF Len(u) > Len(v) THEN u ELSE v
LexLarger(u, v) == IF LexLess(u, v) THEN v ELSE u
RuleAntecedent(u, v, u_canonical, v_canonical) ==
    IF u_canonical # v_canonical THEN (IF u_canonical THEN v ELSE u)
    ELSE IF Len(u) # Len(v) THEN Longer(u, v)
    ELSE LexLarger(u, v)

\* C9: of every pair the validator found with alias edges both ways, exactly
\* the edge from the rule chain's antecedent is left when the validator is
\* through, whatever the order the pairs were taken in.
C9_ValidatorDirection ==
    pc = "done" =>
        /\ \A p \in valFound : \E r \in valLog : r.u = p[1] /\ r.v = p[2]
        /\ \A r \in valLog :
              LET a == RuleAntecedent(r.u, r.v, r.u_canonical, r.v_canonical)
                  c == IF a = r.u THEN r.v ELSE r.u
              IN /\ <<r.u, r.v>> \in valFound
                 /\ <<a, c>> \in graph.alias
                 /\ <<c, a>> \notin graph.alias

C9_Witness ==
    /\ pc = "done"
    /\ Cardinality(valFound) >= 2
    /\ \E r \in valLog : Len(r.u) = Len(r.v)
    /\ \E r \in valLog : Len(r.u) # Len(r.v)

\* C10: expand_tags is left by an exception only on a rate limit; a remote
\* call that fails otherwise yields no rows and "not deprecated", and a call
\* that has returned holds a result.
C10_OtherErrorsDegrade ==
    /\ [](pc = "done" => ~ result.none)
    /\ [][(pc' = "raised" /\ pc # "raised") => lastReq'.outcome = "ratelimit"]_vars
    /\ [][(nReq' # nReq /\ lastReq'.outcome = "empty") =>
            /\ pc' # "raised"
            /\ lastReq'.kind \in {"impl", "alias"} => pending' = {}
            /\ lastReq'.kind = "dep" => lastReq'.key \notin graph'.deprecated \ graph.deprecated
            /\ (lastReq'.kind = "dep" /\ pc = "implDep") => lastReq'.key \in implications'
            /\ (lastReq'.kind = "dep" /\ pc = "aliasDep") => lastReq'.key \in aliases']_vars

C10_Witness == pc = "done" /\ errSeen /\ ~ result.none /\ nReq > 1

\* The arguments leave the expander without a graph: none handed in, and
\* caching switched off or no cache directory named (argument None or "",
\* DANBOORU_CACHE_DIR unset).
NoBackend(cfg) ==
    /\ cfg.tag_graph = NoGraph
    /\ \/ ~ cfg.use_cache
       \/ (cfg.cache_dir \in {NoDir, ""} /\ cfg.env_cache_dir = NoDir)

\* C11: an expander built without a graph cache backend never enters the
\* fetch loop and never issues a remote call: expand_tags ends in the cache
\* error (not the rate-limit state) with no result, and every read accessor
\* answers with the RuntimeError.
C11_NoBackendFailsFast ==
    NoBackend(config) =>
        /\ pc \in {"idle", "cache_error"}
        /\ nReq = 0
        /\ lastReq = NoReq
        /\ result.none
        /\ answer.op # "none" => answer.error = "RuntimeError"
        /\ callNo = MaxCalls => (pc = "cache_error" \/ answer.op # "none")

C11_Witness ==
    /\ NoBackend(config)
    /\ config.use_cache
    /\ callNo = MaxCalls
    /\ answer.op = "get_semantic_relations"
    /\ answer.error = "RuntimeError"

\* C12: the expanded set a call returns holds every tag of the input list,
\* deprecated tags, alias antecedents and repeated tags included.
C12_ExpandedCoversInput ==
    pc = "done" => Range(input) \subseteq result.expanded

C12_Witness ==
    /\ pc = "done"
    /\ Len(input) = 3
    /\ Cardinality(Range(input)) = 2
    /\ Range(input) \cap graph.deprecated # {}
    /\ \E t \in Range(input) : ~ IsCanonical(graph, t)

\* C13: in the frequencies a call returns, the tags of one alias group are
\* all in the expanded set and all carry the same number, the sum of the
\* group members' frequencies before the sharing.
C13_AliasGroupSharesSum ==
    pc = "done" =>
        \A x \in result.expanded :
            \A y \in GetAliasGroup(graph, x) :
                /\ y \in result.expanded
                /\ result.frequency[x] = result.frequency[y]
                /\ result.frequency[x] =
                      SumOver(GetAliasGroup(graph, x), PreAliasFrequency(graph, input))

C13_Witness ==
    /\ pc = "done"
    /\ valFound # {}
    /\ \E x \in result.expanded :
          /\ Cardinality(GetAliasGroup(graph, x)) = 2
          /\ \E y \in GetAliasGroup(graph, x) :
                /\ PreAliasFrequency(graph, input)[x] = 2
                /\ PreAliasFrequency(graph, input)[y] = 1
                /\ result.frequency[y] = 3

\* No tag reaches itself over implications that count.
Acyclic(g) ==
    \A t \in Tags : t \notin {e[2] : e \in {x \in LiveImplications(g) : x[1] \in GetTransitiveImplications(g, t)}}

\* C14: where the implications form no cycle, the frequency of a tag before
\* the alias sharing is the number of times the input list names it plus the
\* full frequencies of all its antecedents in the expanded set reached from
\* the input; in a graph without aliases this is the frequency returned.
C14_WeightedPropagation ==
    (pc = "done" /\ Acyclic(graph)) =>
        LET f == PreAliasFrequency(graph, input)
            reached == Range(input) \cup
                          UNION {GetTransitiveImplications(graph, s) : s \in Range(input)}
        IN /\ \A b \in reached :
                 f[b] = Occurrences(input, b)
                          + SumOver({a \in reached : <<a, b>> \in LiveImplications(graph)}, f)
           /\ graph.alias = {} => result.frequency = f

C14_Witness ==
    /\ pc = "done"
    /\ graph.alias = {}
    /\ graph.impl = {<<tA, tAB>>, <<tAB, tB>>, <<tA, tB>>}
    /\ graph.deprecated = {}
    /\ input = <<tA, tA>>
    /\ result.frequency[tB] = 4

\* C15: all_related of the dict get_semantic_relations returns is the union
\* of its transitive_implications, direct_aliases, aliased_from and
\* alias_group without the tag asked about, which it never holds.
C15_AllRelated ==
    (answer.op = "get_semantic_relations" /\ answer.error = "none") =>
        LET r == answer.value.relations
        IN /\ r.all_related =
                (r.transitive_implications \cup r.direct_aliases
                    \cup r.aliased_from \cup r.alias_group) \ {answer.tag}
           /\ answer.tag \notin r.all_related
           /\ r.transitive_implications =
                GetTransitiveImplicationsOf(graph, answer.tag, answer.include_deprecated)
           /\ r.direct_aliases = GetAliases(graph, answer.tag, answer.include_deprecated)
           /\ r.aliased_from = GetAliasedFrom(graph, answer.tag, answer.include_deprecated)
           /\ r.alias_group = GetAliasGroupOf(graph, answer.tag, answer.include_deprecated)

C15_Witness ==
    /\ answer.op = "get_semantic_relations"
    /\ answer.error = "none"
    /\ answer.tag \in answer.value.relations.alias_group
    /\ answer.value.relations.transitive_implications # {}
    /\ answer.value.relations.aliased_from # {}
    /\ Cardinality(answer.value.relations.all_related) = 2

\* C16: every remote call is issued at least request_delay after the
\* timestamp the call before it recorded (for the first call, after the
\* initial timestamp), and every call, failing or not, records the time it
\* is issued at as the new timestamp.
C16_MinimumInterval ==
    [][nReq' # nReq =>
          /\ last_request_time' - last_request_time >= config.request_delay
          /\ last_request_time' = clock'
          /\ last_request_time' >= clock]_vars

C16_Witness ==
    /\ config.request_delay = MaxDelay
    /\ nReq = 2
    /\ last_request_time = 2 * MaxDelay
    /\ nFail = 1
    /\ lastReq.outcome = "ratelimit"

\* C17: the fetch loop of a call is left, for the validator or by a rate
\* limit; and a pass of the loop leaves every tag of the to-process set it
\* started on marked as fetched, whatever the remote reports (cycles
\* included) and whichever lookups failed.
C17_LoopTerminates ==
    /\ (pc = "loop") ~> (pc \in {"validate", "raised"})
    /\ [][(pc = "tag" /\ pc' = "loop") =>
            /\ \A t \in to_process : IsTagFetched(graph', t)
            /\ GetUnfetchedTags(graph', to_process') \subseteq newly_discovered]_vars
    /\ [][\A t \in Tags : IsTagFetched(graph, t) => IsTagFetched(graph', t)]_vars

C17_Witness ==
    /\ pc = "validate"
    /\ nFail = 0
    /\ {<<tA, tB>>, <<tB, tA>>} \subseteq RemoteImplications
    /\ input = <<tA>>
    /\ graph.fetched = {tA, tB}
    /\ nReq = 8

\* C18: when the deprecated-status lookup of a tag of the batch comes back
\* with "deprecated", that step records the tag as deprecated and fetched,
\* adds no edge and discovers nothing, and goes on to the next tag of the
\* batch; no implications or aliases lookup is ever keyed by a tag recorded
\* as deprecated, and such a tag has no outgoing edge.
C18_DeprecatedNotExplored ==
    /\ [][(nReq' # nReq /\ pc = "tag" /\ lastReq'.outcome = "ok"
               /\ lastReq'.key \in remote.dep) =>
            /\ lastReq'.key \in graph'.deprecated
            /\ IsTagFetched(graph', lastReq'.key)
            /\ graph'.impl = graph.impl
            /\ graph'.alias = graph.alias
            /\ newly_discovered' = newly_discovered
            /\ pc' = "tag"
            /\ lastReq'.key \notin batch']_vars
    /\ [][(nReq' # nReq /\ lastReq'.kind \in {"impl", "alias"}) =>
            lastReq'.key \notin graph.deprecated]_vars
    /\ [](\A t \in graph.deprecated :
            /\ IsTagFetched(graph, t)
            /\ ~ \E e \in graph.impl \cup graph.alias : e[1] = t)

C18_Witness ==
    /\ pc = "done"
    /\ \E t \in Range(input) \cap graph.deprecated :
          /\ \E r \in remote.impl : r.ante = t /\ r.active
          /\ \E r \in remote.alias : r.ante = t /\ r.active

MarkedInPass(c) ==
    /\ IsTagFetched(graph, c)
    /\ \E t \in Tags : <<t, c>> \in graph.alias

\* C20: the consequents of the alias edges a fetch records are marked as
\* fetched by it, and no aliases lookup is keyed by a tag so marked earlier
\* in the same pass over the batch.
C20_MarkedConsequentNotLookedUp ==
    /\ [][(pc = "write" /\ pc' = "tag") =>
            \A c \in aliases : <<tag, c>> \in graph'.alias /\ IsTagFetched(graph', c)]_vars
    /\ [][(nReq' # nReq /\ lastReq'.kind = "alias") => ~ MarkedInPass(lastReq'.key)]_vars

\* C21: the step on which a remote call signals a rate limit ends the call:
\* it writes nothing to the graph, saves nothing, completes no tag's fetch
\* and does not enter the validator; and from then on nothing happens (no
\* remote call, no graph write, no save) until the caller starts a new call.
C21_RateLimitStopsCall ==
    /\ [][(nReq' # nReq /\ lastReq'.outcome = "ratelimit") =>
            /\ pc' = "raised"
            /\ graph' = graph
            /\ saved' = saved
            /\ doneThisCall' = doneThisCall
            /\ valFound' = {} /\ valLog' = {} /\ valPairs' = valPairs
            /\ batch' = {} /\ to_process' = {}]_vars
    /\ [][pc = "raised" =>
            /\ callNo' = callNo + 1
            /\ pc' = "loop"
            /\ nReq' = 0
            /\ graph' = graph
            /\ saved' = saved]_vars
    /\ [](pc = "raised" => (lastReq.outcome = "ratelimit" /\ valFound = {} /\ valLog = {}))

C21_Witness ==
    /\ pc = "raised"
    /\ lastReq.kind = "alias"
    /\ doneThisCall # {}
    /\ graph # saved
    /\ Range(input) \ graph.fetched # {}

\* C22: when the aliases lookup of a tag failed without a rate limit, the
\* graph the tag's fetch leaves is not the one it leaves when that lookup
\* returns no rows, and the graph does not report the tag as fetched.
C22_FailureNotConflated ==
    [][(pc = "write" /\ pc' = "tag" /\ lastReq.kind = "alias"
            /\ lastReq.key = tag /\ lastReq.outcome = "empty") =>
          /\ graph' # PopulateTag(graph, tag, implications, AliasCandidates(
                          [remote EXCEPT !.alias = {}], tag, NoExc))
          /\ tag \in GetUnfetchedTags(graph', {tag})]_vars

\* The two tags of an edge in the order the validator names the pair.
PairOf(e) == SortedPair(e[1], e[2])

\* C23: a step of the validator leaves the nodes, the fetched and deprecated
\* marks and the implication edges as they are and changes alias edges only
\* between the two tags of a pair it found with alias edges both ways; where
\* no such pair is left it changes nothing; and the validator of a call that
\* follows a call that returned changes nothing at all.
C23_ValidatorFrame ==
    /\ [][pc = "validate" =>
            /\ graph'.nodes = graph.nodes
            /\ graph'.fetched = graph.fetched
            /\ graph'.deprecated = graph.deprecated
            /\ graph'.impl = graph.impl
            /\ \A e \in (graph.alias \ graph'.alias) \cup (graph'.alias \ graph.alias) :
                  PairOf(e) \in valFound /\ PairOf(e) \in BidirectionalPairs(graph)
            /\ BidirectionalPairs(graph) = {} => graph' = graph]_vars
    /\ []((pc \in {"validate", "done"} /\ ~ prev.none) =>
            (valFound = {} /\ valLog = {} /\ graph = prev.graph))

C23_Witness ==
    /\ pc = "done"
    /\ ~ prev.none
    /\ graph # saved
    /\ graph.impl # {}
    /\ graph.deprecated # {}
    /\ graph.fetched # Tags
    /\ \E e \in graph.alias : <<e[2], e[1]>> \notin saved.alias

\* The lookups of a tag's fetch are under way, or done and its writes due.
FetchUnderWay == pc \in {"impl", "implDep", "alias", "aliasDep", "write"}

\* Nothing has been written for t: it has no outgoing edge, is not recorded
\* as deprecated, its fetch is not among the completed ones, and it is
\* marked fetched only as the consequent of an alias of a tag fetched before.
NothingWrittenFor(t) ==
    /\ \A e \in graph.impl \cup graph.alias : e[1] # t
    /\ t \notin graph.deprecated
    /\ t \notin doneThisCall
    /\ IsTagFetched(graph, t) => \E a \in doneThisCall : <<a, t>> \in graph.alias

\* C24: no lookup of a tag's fetch writes to the graph, so that while the
\* fetch of a tag is under way, and when a rate limit has ended it, the
\* graph (first call, fresh graph) holds nothing written for that tag.
C24_NoWriteBeforeLastLookup ==
    /\ [][(nReq' # nReq /\ (FetchUnderWay \/ lastReq'.outcome = "ratelimit")) =>
            (graph' = graph /\ doneThisCall' = doneThisCall)]_vars
    /\ [](FetchUnderWay => NothingWrittenFor(tag))
    /\ [](pc = "raised" => NothingWrittenFor(lastReq.for))

C24_Witness ==
    /\ pc = "raised"
    /\ lastReq.kind = "dep"
    /\ lastReq.for # lastReq.key
    /\ IsTagFetched(graph, lastReq.for)
    /\ \E r \in remote.impl : r.ante = lastReq.for /\ r.active

\* C25: between any two graph operations of a fetch, the tag being written,
\* once marked fetched and not deprecated, has every implication and alias
\* edge its fetch records.
C25_FetchedTagHasItsEdges ==
    (pc = "edges" /\ IsTagFetched(graph, tag) /\ tag \notin graph.deprecated) =>
        /\ \A c \in implications : <<tag, c>> \in graph.impl
        /\ \A c \in aliases : <<tag, c>> \in graph.alias

\* C26: of a pair the validator found with alias edges both ways, the graph
\* holds an alias edge one way or the other in every state, and whoever asks
\* for the alias group of one of its tags is given the other one too.
C26_RepairIsAtomic ==
    /\ \A p \in valFound :
          <<p[1], p[2]>> \in graph.alias \/ <<p[2], p[1]>> \in graph.alias
    /\ answer.op = "get_alias_group" =>
          \A p \in valFound :
              /\ answer.tag = p[1] => p[2] \in answer.value.tags
              /\ answer.tag = p[2] => p[1] \in answer.value.tags

\* C27: every pair the validator has yet to resolve still has its alias
\* edges both ways, so that when it is resolved neither of its tags is
\* canonical, and the direction chosen is the one the name lengths give or,
\* for names of one length, the one from the lexicographically larger name.
C27_CanonicalRuleNeverDecides ==
    /\ pc = "validate" =>
          \A p \in valPairs :
              /\ {<<p[1], p[2]>>, <<p[2], p[1]>>} \subseteq graph.alias
              /\ ~ IsCanonical(graph, p[1])
              /\ ~ IsCanonical(graph, p[2])
    /\ \A r \in valLog :
          /\ ~ r.u_canonical
          /\ ~ r.v_canonical
          /\ r.dir[1] = (IF Len(r.u) # Len(r.v) THEN Longer(r.u, r.v) ELSE LexLarger(r.u, r.v))
          /\ {r.dir[1], r.dir[2]} = {r.u, r.v}

C27_Witness ==
    /\ pc = "done"
    /\ Cardinality(valLog) = 3
    /\ \E t \in Tags : IsCanonical(graph, t)
    /\ \E t \in Tags : ~ IsCanonical(graph, t)

\* The call under way, or just over, is the second one, made after a rate
\* limit ended the first one on the same input.
Retried == callNo = 2 /\ prev.none

\* C28: a call that a rate limit ended, made again and returning, leaves
\* the graph a single call without failure leaves on the same input, and
\* returns what that call returns.
C28_RetryEqualsUninterrupted ==
    (pc = "done" /\ Retried) =>
        /\ graph = UninterruptedCall(remote, EmptyGraph, input).graph
        /\ result = UninterruptedCall(remote, EmptyGraph, input).result

\* The function is the call: a first call without failure ends as it says.
UninterruptedAgrees ==
    (pc = "done" /\ callNo = 1 /\ nFail = 0) =>
        /\ graph = UninterruptedCall(remote, EmptyGraph, input).graph
        /\ result = UninterruptedCall(remote, EmptyGraph, input).result

\* C29: when expand_tags has returned, the snapshot auto_save wrote last is
\* the graph in memory and holds no two tags with alias edges both ways.
C29_RepairsArePersisted ==
    pc = "done" => (saved = graph /\ BidirectionalPairs(saved) = {})

\* C30: no tag has its relationships fetched by both of two expanders that
\* share a graph.
C30_NoDuplicateFetch ==
    doneThisCall \cap peer.done = {}

====
